---- MODULE Spec2Model ----
(***************************************************************************)
(* Model of tendril/structures/parsers/psl.py: the PSL (Parts Structure    *)
(* List) parser.  A file is a block of (label, value) metadata lines, one  *)
(* header line and data rows; parse() rebuilds the entity tree from the    *)
(* level-annotated rows.                                                   *)
(*                                                                         *)
(* Text is modelled as a sequence of one-character strings, so formatting, *)
(* trimming and integer parsing are computed, not assumed.  Column names   *)
(* and metadata labels are atoms (TLA+ strings).                           *)
(***************************************************************************)
EXTENDS Integers, Sequences, FiniteSets, TLC

VARIABLES
    cls,                \* concrete parser class of the instance
    _handle_qty,        \* class attribute _handle_qty of the instance's class
    file_lines,         \* content of the file at _psl_path, as far as it was read
    file_eof,           \* TRUE when file_lines is the whole file
    psl,                \* the handle of the running parse: [state, pos]
    pc,                 \* position of parse()
    exc,                \* exception that left parse(), "none" if none did
    result,             \* value returned by parse()
    _meta_data,         \* label -> value read by _read_meta
    owner_ident,
    owner_desc,
    _columns,
    _columns_ok,
    _validation_errors,
    reader,             \* value of the local `reader` of parse()
    _owner,
    _active_parents,
    entities,           \* every GenericEntity created so far, by creation order
    warnings,           \* messages passed to logger.warn
    meta_i,             \* index of the label _read_meta is at (1-based)
    accepted,           \* history: the rows this parse accepted so far
    run,                \* number of the parse() call on this file
    first               \* outcome of the first parse() call, kept for comparison

vars == <<cls, _handle_qty, file_lines, file_eof, psl, pc, exc, result,
          _meta_data, owner_ident, owner_desc, _columns, _columns_ok,
          _validation_errors, reader, _owner, _active_parents, entities,
          warnings, meta_i, accepted, run, first>>

-----------------------------------------------------------------------------
(* Bounds of the model *)

MaxRows == 3
MaxQty == 2
MaxLevel == 2

-----------------------------------------------------------------------------
(* Python values *)

None == <<"<None>">>

NoEntity == 0

Whitespace == {" "}

Digits == <<"0", "1", "2", "3", "4", "5", "6", "7", "8", "9">>

IsDigit(c) == \E i \in 1..10 : Digits[i] = c

DigitVal(c) == (CHOOSE i \in 1..10 : Digits[i] = c) - 1

RECURSIVE LStrip(_)
LStrip(s) ==
    IF s # <<>> /\ Head(s) \in Whitespace THEN LStrip(Tail(s)) ELSE s

RECURSIVE RStrip(_)
RStrip(s) ==
    IF s # <<>> /\ s[Len(s)] \in Whitespace
    THEN RStrip(SubSeq(s, 1, Len(s) - 1))
    ELSE s

\* str.strip()
Strip(s) == RStrip(LStrip(s))

RECURSIVE DigitsVal(_)
DigitsVal(s) ==
    IF s = <<>> THEN 0
    ELSE 10 * DigitsVal(SubSeq(s, 1, Len(s) - 1)) + DigitVal(s[Len(s)])

\* int(str): surrounding whitespace and one sign are allowed, then digits
IntBody(s) ==
    IF s # <<>> /\ Head(s) \in {"+", "-"} THEN Tail(s) ELSE s

IntOk(s) ==
    LET b == IntBody(Strip(s))
    IN  b # <<>> /\ \A i \in 1..Len(b) : IsDigit(b[i])

PyInt(s) ==
    LET t == Strip(s)
        v == DigitsVal(IntBody(t))
    IN  IF t # <<>> /\ Head(t) = "-" THEN 0 - v ELSE v

\* chr(): the characters from ord('a') on
OrdA == 97

Letters == <<"a", "b", "c", "d", "e", "f", "g", "h", "i", "j", "k", "l", "m",
             "n", "o", "p", "q", "r", "s", "t", "u", "v", "w", "x", "y", "z",
             "{", "|", "}", "~">>

Chr(n) == Letters[n - OrdA + 1]

\* A format template is a sequence of literal characters and fields:
\* Lit(c) is the character c, Arg(i) the replacement field {i}.
Lit(c) == [k |-> "lit", c |-> c, i |-> 0]

Arg(i) == [k |-> "arg", c |-> "", i |-> i]

\* str.format(*args), args numbered from 0
RECURSIVE Format(_, _)
Format(fmt, args) ==
    IF fmt = <<>> THEN <<>>
    ELSE (IF Head(fmt).k = "lit" THEN <<Head(fmt).c>>
          ELSE args[Head(fmt).i + 1]) \o Format(Tail(fmt), args)

\* IdentSpec = namedtuple("IdentSpec", "domain, fmt, parts")
IdentSpec(domain, fmt, parts) ==
    [isIdent |-> TRUE, domain |-> domain, fmt |-> fmt, parts |-> parts]

\* ParseSpec = namedtuple("ParseSpec", "fmt, parts")
ParseSpec(fmt, parts) ==
    [isIdent |-> FALSE, domain |-> "", fmt |-> fmt, parts |-> parts]

-----------------------------------------------------------------------------
(* Class attributes of the format variants *)

Classes == {"PslParserCSV", "PslParserTMIR"}

_meta(c) ==
    IF c = "PslParserTMIR" THEN <<"CCODE", "VERSION", "COACHNAME">>
    ELSE <<"ident", "revision", "description">>

\* the owner templates with the two fields in the other order
_owner_ident_name_swapped(c) ==
    IF c = "PslParserTMIR"
    THEN ParseSpec(<<Arg(1), Lit(" "), Lit("v"), Arg(0)>>, <<"CCODE", "VERSION">>)
    ELSE ParseSpec(<<Arg(1), Lit("r"), Arg(0)>>, <<"ident", "revision">>)

_owner_ident_name(c) ==
    IF c = "PslParserTMIR"
    THEN ParseSpec(<<Arg(0), Lit(" "), Lit("v"), Arg(1)>>, <<"CCODE", "VERSION">>)
    ELSE ParseSpec(<<Arg(0), Lit("r"), Arg(1)>>, <<"ident", "revision">>)

_owner_desc_name(c) ==
    IF c = "PslParserTMIR" THEN ParseSpec(<<Arg(0)>>, <<"COACHNAME">>)
    ELSE ParseSpec(<<Arg(0)>>, <<"description">>)

_ident_name(c) ==
    <<IdentSpec("cadfiles", <<Arg(0), Lit(" "), Arg(1)>>, <<"SDrawingNo", "SAlt">>),
      IdentSpec("materials", <<Arg(0)>>, <<"Description">>)>>

_parent_ident_name(c) ==
    <<ParseSpec(<<Arg(0), Lit(" "), Arg(1)>>, <<"DrawingNo", "Alt">>)>>

_expected_columns(c) ==
    IF c = "PslParserTMIR"
    THEN <<"Page", "PsNo", "Lv", "DrawingNo", "Alt", "Item",
           "SDrawingNo", "SAlt", "Description", "St", "QPC">>
    ELSE <<"level", "DrawingNo", "Alt", "refdes",
           "SDrawingNo", "SAlt", "description", "type", "qty">>

_level_name(c) == IF c = "PslParserTMIR" THEN "Lv" ELSE "level"

_qty_name(c) == IF c = "PslParserTMIR" THEN "QPC" ELSE "qty"

_refdes_name(c) == IF c = "PslParserTMIR" THEN "Item" ELSE "refdes"

_desc_name(c) == IF c = "PslParserTMIR" THEN "Description" ELSE "description"

_type_name(c) == IF c = "PslParserTMIR" THEN "St" ELSE "type"

_type_assembly(c) ==
    IF c = "PslParserTMIR" THEN <<"A", "S">>
    ELSE <<"A", "s", "s", "e", "m", "b", "l", "y">>

_type_part(c) ==
    IF c = "PslParserTMIR" THEN <<"C", "O">> ELSE <<"P", "a", "r", "t">>

-----------------------------------------------------------------------------
(* Helpers on sequences and dictionaries *)

Range(s) == {s[i] : i \in 1..Len(s)}

Min(a, b) == IF a < b THEN a ELSE b

\* dict(zip(keys, values)): pairs up to the shorter length, a later
\* occurrence of a key replaces an earlier one
DictZip(keys, values) ==
    LET n == Min(Len(keys), Len(values))
    IN  [k \in {keys[i] : i \in 1..n} |->
            values[CHOOSE i \in 1..n :
                      /\ keys[i] = k
                      /\ \A j \in 1..n : keys[j] = k => j <= i]]

\* d[k] = v for a dict d modelled as a function
DictSet(d, k, v) == [x \in DOMAIN d \cup {k} |-> IF x = k THEN v ELSE d[x]]

EmptyDict == [x \in {} |-> 0]

NoExc == [type |-> "none", args |-> <<>>]

Raise(type, args) == [type |-> type, args |-> args]

-----------------------------------------------------------------------------
(* Entities.  An entity is kept in `entities` under its creation index;    *)
(* structure tells whether it owns a BasicContainer and children lists the *)
(* indices of the entities inserted into that container, in order.         *)

Entity(ident, desc, refdes, domain, structure) ==
    [ident |-> ident, desc |-> desc, refdes |-> refdes, domain |-> domain,
     structure |-> structure, children |-> <<>>]

\* The outcome of a computation that may raise: the exception (NoExc if
\* none) and the value.
Ok(v) == [exc |-> NoExc, val |-> v]

Fail(type, args) == [exc |-> Raise(type, args), val |-> None]

\* GenericEntity.insert: the child is added to the parent's structure; a
\* parent without one raises EntityHasNoStructure
EntityInsert(ents, parent, entity) ==
    IF ents[parent].structure
    THEN Ok([ents EXCEPT ![parent].children = Append(@, entity)])
    ELSE Fail("EntityHasNoStructure", <<>>)

\* parent.structure = BasicContainer(owner=parent): a new, empty container
AttachStructure(ents, parent) ==
    [ents EXCEPT ![parent].structure = TRUE, ![parent].children = <<>>]

\* [line[x] for x in parts]: the first missing key raises KeyError
MissingKeys(line, parts) == {i \in 1..Len(parts) : parts[i] \notin DOMAIN line}

FirstMissing(line, parts) ==
    parts[CHOOSE i \in MissingKeys(line, parts) :
              \A j \in MissingKeys(line, parts) : i <= j]

\* _extract_composite_value that tests the formatted string untrimmed
RECURSIVE _extract_composite_value_untrimmed(_, _)
_extract_composite_value_untrimmed(line, options) ==
    IF options = <<>> THEN Ok(None)
    ELSE LET option == Head(options)
         IN  IF MissingKeys(line, option.parts) # {}
             THEN Fail("KeyError", <<FirstMissing(line, option.parts)>>)
             ELSE LET candidate ==
                          Format(option.fmt,
                                 [i \in 1..Len(option.parts) |->
                                     line[option.parts[i]]])
                  IN  IF candidate # <<>>
                      THEN IF option.isIdent
                           THEN Ok(<<candidate, option.domain>>)
                           ELSE Ok(candidate)
                      ELSE _extract_composite_value_untrimmed(line,
                                                              Tail(options))

RECURSIVE _extract_composite_value(_, _)
_extract_composite_value(line, options) ==
    IF options = <<>> THEN Ok(None)
    ELSE LET option == Head(options)
         IN  IF MissingKeys(line, option.parts) # {}
             THEN Fail("KeyError", <<FirstMissing(line, option.parts)>>)
             ELSE LET candidate ==
                          Strip(Format(option.fmt,
                                       [i \in 1..Len(option.parts) |->
                                           line[option.parts[i]]]))
                  IN  IF candidate # <<>>
                      THEN IF option.isIdent
                           THEN Ok(<<candidate, option.domain>>)
                           ELSE Ok(candidate)
                      ELSE _extract_composite_value(line, Tail(options))

_extract_ident(c, line) == _extract_composite_value(line, _ident_name(c))

_extract_parent_ident(c, line) ==
    _extract_composite_value(line, _parent_ident_name(c))

\* a numbering that leaves the first unit bare: base, base+'a', base+'b', ...
LineRefdesFirstBare(base, qty, i) ==
    IF i > 0 THEN base \o <<Chr(OrdA + i - 1)>> ELSE base

\* the refdes of unit i (0-based) of a row expanded into qty units
LineRefdes(base, qty, i) ==
    IF qty > 1 THEN base \o <<Chr(OrdA + i)>> ELSE base

\* _generate_line_entities that gives every entity a container, whatever
\* the type of its row
_generate_line_entities_all_containers(c, hq, line) ==
    LET id == _extract_ident(c, line)
    IN  IF id.exc # NoExc THEN id
        ELSE IF id.val = None THEN Fail("TypeError", <<"unpack">>)
        ELSE IF hq /\ ~IntOk(line[_qty_name(c)])
        THEN Fail("ValueError", <<_qty_name(c)>>)
        ELSE LET qty == IF hq THEN PyInt(line[_qty_name(c)]) ELSE 1
                 n == IF qty > 0 THEN qty ELSE 0
             IN  Ok([i \in 1..n |->
                        Entity(id.val[1], line[_desc_name(c)],
                               LineRefdes(line[_refdes_name(c)], qty, i - 1),
                               id.val[2], TRUE)])

\* _generate_line_entities: the entities of one row, not yet inserted
_generate_line_entities(c, hq, line) ==
    LET id == _extract_ident(c, line)
    IN  IF id.exc # NoExc THEN id
        ELSE IF id.val = None THEN Fail("TypeError", <<"unpack">>)
        ELSE IF hq /\ ~IntOk(line[_qty_name(c)])
        THEN Fail("ValueError", <<_qty_name(c)>>)
        ELSE LET qty == IF hq THEN PyInt(line[_qty_name(c)]) ELSE 1
                 n == IF qty > 0 THEN qty ELSE 0
             IN  Ok([i \in 1..n |->
                        Entity(id.val[1], line[_desc_name(c)],
                               LineRefdes(line[_refdes_name(c)], qty, i - 1),
                               id.val[2],
                               line[_type_name(c)] = _type_assembly(c))])

\* parent.insert(entity) without the except clause
InsertOneNoHandler(st, parent, entity) ==
    LET try == EntityInsert(st.entities, parent, entity)
    IN  IF try.exc = NoExc THEN [st EXCEPT !.entities = try.val]
        ELSE [st EXCEPT !.exc = try.exc]

\* the body of the loops of _insert_line_entities, on st = [exc, entities,
\* warnings]: parent.insert(entity), and on EntityHasNoStructure the warning,
\* a new structure and the insert again
InsertOne(st, parent, entity) ==
    LET try == EntityInsert(st.entities, parent, entity)
    IN  IF try.exc = NoExc THEN [st EXCEPT !.entities = try.val]
        ELSE LET warned == Append(st.warnings,
                                  <<"Adding structure", st.entities[parent].ident>>)
                 again == EntityInsert(AttachStructure(st.entities, parent),
                                       parent, entity)
             IN  IF again.exc = NoExc
                 THEN [st EXCEPT !.entities = again.val, !.warnings = warned]
                 ELSE [st EXCEPT !.exc = again.exc, !.warnings = warned,
                                 !.entities = AttachStructure(st.entities, parent)]

\* parent.insert(entity) for each of the parents from the j-th (1-based) on
RECURSIVE InsertUnderEach(_, _, _, _)
InsertUnderEach(st, parents, j, entity) ==
    IF j > Len(parents) \/ st.exc # NoExc THEN st
    ELSE InsertUnderEach(InsertOne(st, parents[j], entity), parents, j + 1,
                         entity)

\* loops that insert every line entity into every parent:
\* for parent in parents: for entity in line_entities: parent.insert(entity)
RECURSIVE InsertFromEveryParent(_, _, _, _, _, _)
InsertFromEveryParent(st, line_entities, parents, per_parent, k, n) ==
    IF k >= n \/ st.exc # NoExc THEN st
    ELSE InsertFromEveryParent(InsertUnderEach(st, parents, 1,
                                               line_entities[k + 1]),
                               line_entities, parents, per_parent, k + 1, n)

\* loops that deal the line entities out to the parents in turn: line
\* entity k goes to parents[k % len(parents)]
RECURSIVE InsertFromInTurn(_, _, _, _, _, _)
InsertFromInTurn(st, line_entities, parents, per_parent, k, n) ==
    IF k >= n \/ st.exc # NoExc THEN st
    ELSE InsertFromInTurn(InsertOne(st, parents[(k % Len(parents)) + 1],
                                    line_entities[k + 1]),
                          line_entities, parents, per_parent, k + 1, n)

\* the loops of _insert_line_entities from the k-th (0-based) line entity on:
\* line entity k goes to parents[k / per_parent]; an exception ends them
RECURSIVE InsertFrom(_, _, _, _, _, _)
InsertFrom(st, line_entities, parents, per_parent, k, n) ==
    IF k >= n \/ st.exc # NoExc THEN st
    ELSE InsertFrom(InsertOne(st, parents[(k \div per_parent) + 1],
                              line_entities[k + 1]),
                    line_entities, parents, per_parent, k + 1, n)

\* _insert_line_entities without the assert on per_parent
_insert_line_entities_unchecked(st, line_entities, parents) ==
    IF Len(parents) = 0
    THEN [st EXCEPT !.exc = Raise("ZeroDivisionError", <<>>)]
    ELSE LET per_parent == Len(line_entities) \div Len(parents)
         IN  InsertFrom(st, line_entities, parents, per_parent,
                        0, Len(parents) * per_parent)

\* _insert_line_entities on st = [exc, entities, warnings], where
\* line_entities and parents are lists of indices into st.entities
_insert_line_entities(st, line_entities, parents) ==
    IF Len(parents) = 0
    THEN [st EXCEPT !.exc = Raise("ZeroDivisionError", <<>>)]
    ELSE LET per_parent == Len(line_entities) \div Len(parents)
         IN  IF Len(parents) * per_parent # Len(line_entities)
             THEN [st EXCEPT !.exc = Raise("AssertionError", <<"per_parent">>)]
             ELSE InsertFrom(st, line_entities, parents, per_parent,
                             0, Len(parents) * per_parent)

\* a lookup that falls back to the root slot: _active_parents.get(level - 1, ...)
ParentsOrRoot(active, level) ==
    IF (level - 1) \in DOMAIN active THEN Ok(active[level - 1])
    ELSE Ok(active[-1])

\* parents = self._active_parents[level - 1]
ParentsOf(active, level) ==
    IF (level - 1) \in DOMAIN active THEN Ok(active[level - 1])
    ELSE Fail("KeyError", <<"_active_parents">>)

\* the parent check with the guard level > 1
CheckParentBelowRoot(ents, level, parents, parent_ident) ==
    IF level > 1 /\ parents = <<>> THEN Fail("IndexError", <<>>)
    ELSE IF level > 1 /\ ents[parents[1]].ident # parent_ident
    THEN Fail("AssertionError", <<"parent_ident">>)
    ELSE Ok(TRUE)

\* if level > 0: assert parents[0].ident == parent_ident
CheckParent(ents, level, parents, parent_ident) ==
    IF level > 0 /\ parents = <<>> THEN Fail("IndexError", <<>>)
    ELSE IF level > 0 /\ ents[parents[1]].ident # parent_ident
    THEN Fail("AssertionError", <<"parent_ident">>)
    ELSE Ok(TRUE)

\* a table that keeps the first occupants of a level: setdefault
SetActiveKeepFirst(active, level, line_entities) ==
    IF level \in DOMAIN active THEN active
    ELSE DictSet(active, level, line_entities)

\* a table that adds to the occupants of a level:
\* self._active_parents.setdefault(level, []).extend(line_entities)
SetActiveMerged(active, level, line_entities) ==
    IF level \in DOMAIN active
    THEN DictSet(active, level, active[level] \o line_entities)
    ELSE DictSet(active, level, line_entities)

\* self._active_parents[level] = line_entities
SetActive(active, level, line_entities) ==
    DictSet(active, level, line_entities)

\* _process_line that writes the table entry before it inserts:
\* self._active_parents[level] = line_entities ahead of _insert_line_entities
_process_line_table_first(c, hq, st, line) ==
    LET pid == _extract_parent_ident(c, line)
    IN  IF pid.exc # NoExc THEN [st EXCEPT !.exc = pid.exc]
        ELSE IF ~IntOk(line[_level_name(c)])
        THEN [st EXCEPT !.exc = Raise("ValueError", <<_level_name(c)>>)]
        ELSE
        LET level == PyInt(line[_level_name(c)])
            ps == ParentsOf(st.active, level)
        IN  IF ps.exc # NoExc THEN [st EXCEPT !.exc = ps.exc]
            ELSE
            LET parents == ps.val
                chk == CheckParent(st.entities, level, parents, pid.val)
            IN  IF chk.exc # NoExc THEN [st EXCEPT !.exc = chk.exc]
                ELSE
                LET gen == _generate_line_entities(c, hq, line)
                IN  IF gen.exc # NoExc THEN [st EXCEPT !.exc = gen.exc]
                    ELSE
                    LET n == Len(gen.val)
                        line_entities == [i \in 1..n |-> Len(st.entities) + i]
                        ins == _insert_line_entities(
                                   [exc |-> NoExc,
                                    entities |-> st.entities \o gen.val,
                                    warnings |-> st.warnings],
                                   line_entities, parents)
                    IN  [exc |-> ins.exc,
                         entities |-> ins.entities,
                         warnings |-> ins.warnings,
                         active |-> SetActive(st.active, level, line_entities)]

\* _process_line on st = [exc, entities, warnings, active]: the state it
\* leaves, with the exception that left it if one did
_process_line(c, hq, st, line) ==
    LET pid == _extract_parent_ident(c, line)
    IN  IF pid.exc # NoExc THEN [st EXCEPT !.exc = pid.exc]
        ELSE IF ~IntOk(line[_level_name(c)])
        THEN [st EXCEPT !.exc = Raise("ValueError", <<_level_name(c)>>)]
        ELSE
        LET level == PyInt(line[_level_name(c)])
            ps == ParentsOf(st.active, level)
        IN  IF ps.exc # NoExc THEN [st EXCEPT !.exc = ps.exc]
            ELSE
            LET parents == ps.val
                chk == CheckParent(st.entities, level, parents, pid.val)
            IN  IF chk.exc # NoExc THEN [st EXCEPT !.exc = chk.exc]
                ELSE
                LET gen == _generate_line_entities(c, hq, line)
                IN  IF gen.exc # NoExc THEN [st EXCEPT !.exc = gen.exc]
                    ELSE
                    LET n == Len(gen.val)
                        line_entities == [i \in 1..n |-> Len(st.entities) + i]
                        ins == _insert_line_entities(
                                   [exc |-> NoExc,
                                    entities |-> st.entities \o gen.val,
                                    warnings |-> st.warnings],
                                   line_entities, parents)
                    IN  IF ins.exc # NoExc
                        THEN [st EXCEPT !.exc = ins.exc,
                                        !.entities = ins.entities,
                                        !.warnings = ins.warnings]
                        ELSE [exc |-> NoExc,
                              entities |-> ins.entities,
                              warnings |-> ins.warnings,
                              active |-> SetActive(st.active, level,
                                                   line_entities)]

-----------------------------------------------------------------------------
(* The file: what next() on a csv.reader over the handle can yield.  The   *)
(* content is fixed the first time a line is read, so that a second parse  *)
(* reads the same file.                                                    *)

Eof == [eof |-> TRUE, line |-> <<>>]

Line(l) == [eof |-> FALSE, line |-> l]

NextLines(candidates, more) ==
    IF psl.pos < Len(file_lines) THEN {Line(file_lines[psl.pos + 1])}
    ELSE IF file_eof THEN {Eof}
    ELSE {Line(l) : l \in IF more THEN candidates ELSE {}} \cup {Eof}

\* the file and the handle after next() yielded r
Consume(r) ==
    /\ file_lines' = IF r.eof \/ psl.pos < Len(file_lines) THEN file_lines
                     ELSE Append(file_lines, r.line)
    /\ file_eof' = (file_eof \/ r.eof)
    /\ psl' = IF r.eof THEN psl ELSE [psl EXCEPT !.pos = @ + 1]

\* the lines read so far that are data rows
RowsRead == psl.pos - Len(_meta(cls)) - 1

(* Input families *)

MetaLines(values) == {<<l, v>> : l \in Range(_meta(cls)), v \in values}

DropAt(s, i) == SubSeq(s, 1, i - 1) \o SubSeq(s, i + 1, Len(s))

Reverse(s) == [i \in 1..Len(s) |-> s[Len(s) + 1 - i]]

\* headers lacking one required column
HeadersMissing == {DropAt(_expected_columns(cls), i) :
                      i \in 1..Len(_expected_columns(cls))}

HeadersValid == {_expected_columns(cls),
                 Reverse(_expected_columns(cls)),
                 _expected_columns(cls) \o <<"Description">>}

AllColumns == Range(_expected_columns(cls)) \cup {"Description"}

IntCell(n) == <<Digits[n + 1]>>

\* the cells of a row by column name
RowFields(lv, dn, sdn, desc, st, qty) ==
    [col \in AllColumns |->
        CASE col = _level_name(cls) -> lv
          [] col = "DrawingNo" -> dn
          [] col = "SDrawingNo" -> sdn
          [] col \in {_desc_name(cls), "Description"} -> desc
          [] col = _type_name(cls) -> st
          [] col = _qty_name(cls) -> qty
          [] col = _refdes_name(cls) -> <<"R", "1">>
          [] col \in {"Alt", "SAlt"} -> <<>>
          [] OTHER -> <<"1">>]

\* the row with these cells under the header read by this parse
RowLine(f) == [i \in 1..Len(_columns) |-> f[_columns[i]]]

LevelCells == {IntCell(n) : n \in 0..MaxLevel}

QtyCells == {IntCell(n) : n \in 0..MaxQty}

TypeCells == {_type_assembly(cls), _type_part(cls)}

Rows(lvs, dns, sdns, descs, sts, qtys) ==
    {RowLine(RowFields(lv, dn, sdn, desc, st, qty)) :
        lv \in lvs, dn \in dns, sdn \in sdns, desc \in descs,
        st \in sts, qty \in qtys}

-----------------------------------------------------------------------------
(* The state after PslParserCSV.__init__ *)

Unopened == [state |-> "unopened", pos |-> 0]

NoFirst == [pc |-> "none", exc |-> NoExc, tree |-> <<>>]

InitInstance ==
    /\ _meta_data = EmptyDict
    /\ owner_ident = None
    /\ owner_desc = None
    /\ _columns = <<>>
    /\ _columns_ok = "None"
    /\ _validation_errors = <<>>
    /\ _owner = NoEntity
    /\ _active_parents = EmptyDict

InitOf(classes, hqs) ==
    /\ cls \in classes
    /\ _handle_qty \in hqs
    /\ file_lines = <<>>
    /\ file_eof = FALSE
    /\ psl = Unopened
    /\ pc = "start"
    /\ exc = NoExc
    /\ result = NoEntity
    /\ InitInstance
    /\ reader = "unset"
    /\ entities = <<>>
    /\ warnings = <<>>
    /\ meta_i = 1
    /\ accepted = <<>>
    /\ run = 1
    /\ first = NoFirst

-----------------------------------------------------------------------------
(* parse(), statement by statement.  An exception leaves parse() at once:  *)
(* no statement of parse() is in a try block, so nothing after the raising *)
(* statement runs.                                                         *)

Raised(e) ==
    /\ pc' = "raised"
    /\ exc' = e

\* psl = self._get_psl_file()
GetPslFile ==
    /\ pc = "start"
    /\ psl' = [state |-> "open", pos |-> 0]
    /\ meta_i' = 1
    /\ accepted' = <<>>
    /\ pc' = "read_meta"
    /\ UNCHANGED <<cls, _handle_qty, file_lines, file_eof, exc, result,
                   _meta_data, owner_ident, owner_desc, _columns, _columns_ok,
                   _validation_errors, reader, _owner, _active_parents,
                   entities, warnings, run, first>>

\* _read_meta_line without its assert
_read_meta_line_unchecked(line, title) == Ok(line[2])

\* _read_meta_line on the line (rtitle, rvalue) just read
_read_meta_line(line, title) ==
    IF line[1] # title
    THEN Fail("MetadataParseException", <<line[1], title>>)
    ELSE Ok(line[2])

\* one iteration of the loop of _read_meta:
\* self._meta_data[meta] = self._read_meta_line(meta_reader, title=meta)
ReadMetaLine(values) ==
    /\ pc = "read_meta"
    /\ \E r \in NextLines(MetaLines(values), TRUE) :
          LET title == _meta(cls)[meta_i]
          IN  /\ Consume(r)
              /\ IF r.eof
                 THEN /\ Raised(Raise("StopIteration", <<>>))
                      /\ UNCHANGED <<_meta_data, meta_i>>
                 ELSE LET rvalue == _read_meta_line(r.line, title)
                      IN  IF rvalue.exc # NoExc
                          THEN /\ Raised(rvalue.exc)
                               /\ UNCHANGED <<_meta_data, meta_i>>
                          ELSE /\ _meta_data' = DictSet(_meta_data, title,
                                                        rvalue.val)
                               /\ meta_i' = meta_i + 1
                               /\ pc' = IF meta_i = Len(_meta(cls))
                                        THEN "process_meta" ELSE "read_meta"
                               /\ exc' = exc
    /\ UNCHANGED <<cls, _handle_qty, result, owner_ident, owner_desc,
                   _columns, _columns_ok, _validation_errors, reader, _owner,
                   _active_parents, entities, warnings, run, first,
                   accepted>>

MetaArgs(spec) == [i \in 1..Len(spec.parts) |-> _meta_data[spec.parts[i]]]

\* self._process_meta()
_process_meta ==
    /\ pc = "process_meta"
    /\ owner_ident' = Format(_owner_ident_name(cls).fmt,
                             MetaArgs(_owner_ident_name(cls)))
    /\ owner_desc' = Format(_owner_desc_name(cls).fmt,
                            MetaArgs(_owner_desc_name(cls)))
    /\ pc' = "prep_reader"
    /\ UNCHANGED <<cls, _handle_qty, file_lines, file_eof, psl, exc, result,
                   _meta_data, _columns, _columns_ok, _validation_errors,
                   reader, _owner, _active_parents, entities, warnings,
                   meta_i, run, first,
                   accepted>>

\* ColumnsRequiredPolicy.check: the required columns the header lacks
MissingColumns(columns) == Range(_expected_columns(cls)) \ Range(columns)

\* _prep_reader whose _check_columns leaves out self._validation_errors.add(e)
_prep_reader_error_dropped(headers) ==
    /\ pc = "prep_reader"
    /\ \E r \in NextLines(headers, TRUE) :
          /\ Consume(r)
          /\ IF r.eof
             THEN /\ Raised(Raise("StopIteration", <<>>))
                  /\ UNCHANGED <<_columns, _columns_ok, _validation_errors,
                                 reader, warnings>>
             ELSE /\ _columns' = r.line
                  /\ IF MissingColumns(r.line) = {}
                     THEN /\ _columns_ok' = "True"
                          /\ reader' = "csv.reader"
                          /\ UNCHANGED <<_validation_errors, warnings>>
                     ELSE /\ _columns_ok' = "False"
                          /\ UNCHANGED _validation_errors
                          /\ warnings' = Append(warnings,
                                                <<"Expected Columns Not Found">>)
                          /\ reader' = "None"
                  /\ pc' = "create_owner"
                  /\ exc' = exc
    /\ UNCHANGED <<cls, _handle_qty, result, _meta_data, owner_ident,
                   owner_desc, _owner, _active_parents, entities, meta_i,
                   run, first,
                   accepted>>

\* reader = self._prep_reader(psl), with _check_columns
_prep_reader(headers) ==
    /\ pc = "prep_reader"
    /\ \E r \in NextLines(headers, TRUE) :
          /\ Consume(r)
          /\ IF r.eof
             THEN /\ Raised(Raise("StopIteration", <<>>))
                  /\ UNCHANGED <<_columns, _columns_ok, _validation_errors,
                                 reader, warnings>>
             ELSE /\ _columns' = r.line
                  /\ IF MissingColumns(r.line) = {}
                     THEN /\ _columns_ok' = "True"
                          /\ reader' = "csv.reader"
                          /\ UNCHANGED <<_validation_errors, warnings>>
                     ELSE /\ _columns_ok' = "False"
                          /\ _validation_errors' =
                                 Append(_validation_errors,
                                        [type |-> "RequiredColumnMissingError",
                                         columns |-> MissingColumns(r.line)])
                          /\ warnings' = Append(warnings,
                                                <<"Expected Columns Not Found">>)
                          /\ reader' = "None"
                  /\ pc' = "create_owner"
                  /\ exc' = exc
    /\ UNCHANGED <<cls, _handle_qty, result, _meta_data, owner_ident,
                   owner_desc, _owner, _active_parents, entities, meta_i,
                   run, first,
                   accepted>>

\* a seeding that keeps a root slot already there: setdefault
SeedRootIfAbsent(active, owner) ==
    IF -1 \in DOMAIN active THEN active ELSE DictSet(active, -1, <<owner>>)

\* self._active_parents[-1] = [self._owner]
SeedRoot(active, owner) == DictSet(active, -1, <<owner>>)

\* self._create_owner(); self._active_parents[-1] = [self._owner]
_create_owner ==
    /\ pc = "create_owner"
    /\ entities' = Append(entities,
                          Entity(owner_ident, owner_desc, None, None, TRUE))
    /\ _owner' = Len(entities) + 1
    /\ _active_parents' = SeedRoot(_active_parents, Len(entities) + 1)
    /\ pc' = "for"
    /\ UNCHANGED <<cls, _handle_qty, file_lines, file_eof, psl, exc, result,
                   _meta_data, owner_ident, owner_desc, _columns, _columns_ok,
                   _validation_errors, reader, warnings, meta_i, accepted, run, first,
                   accepted>>

\* for line in reader: the iterator is taken from reader
IterReader ==
    /\ pc = "for"
    /\ IF reader = "None"
       THEN Raised(Raise("TypeError", <<"NoneType is not iterable">>))
       ELSE /\ pc' = "rows"
            /\ exc' = exc
    /\ UNCHANGED <<cls, _handle_qty, file_lines, file_eof, psl, result,
                   _meta_data, owner_ident, owner_desc, _columns, _columns_ok,
                   _validation_errors, reader, _owner, _active_parents,
                   entities, warnings, meta_i, accepted, run, first,
                   accepted>>

\* one iteration of the loop: self._parse_line(line)
_parse_line(rows, max) ==
    /\ pc = "rows"
    /\ \E r \in NextLines(rows, RowsRead < max) :
          /\ ~r.eof
          /\ Consume(r)
          /\ LET line == DictZip(_columns, r.line)
                 out == _process_line(cls, _handle_qty,
                                      [exc |-> NoExc, entities |-> entities,
                                       warnings |-> warnings,
                                       active |-> _active_parents],
                                      line)
             IN  /\ entities' = out.entities
                 /\ warnings' = out.warnings
                 /\ _active_parents' = out.active
                 /\ IF out.exc # NoExc
                    THEN /\ Raised(out.exc)
                         /\ UNCHANGED accepted
                    ELSE /\ accepted' =
                               Append(accepted,
                                      [row |-> psl.pos + 1,
                                       level |-> PyInt(line[_level_name(cls)]),
                                       ents |-> [i \in 1..(Len(out.entities)
                                                           - Len(entities)) |->
                                                    Len(entities) + i]])
                         /\ UNCHANGED <<pc, exc>>
    /\ UNCHANGED <<cls, _handle_qty, result, _meta_data, owner_ident,
                   owner_desc, _columns, _columns_ok, _validation_errors,
                   reader, _owner, meta_i, run, first>>

\* the reader is exhausted: psl.close(); return self._owner
Return ==
    /\ pc = "rows"
    /\ Eof \in NextLines({}, FALSE)
    /\ file_eof' = TRUE
    /\ psl' = [psl EXCEPT !.state = "closed"]
    /\ result' = _owner
    /\ pc' = "done"
    /\ UNCHANGED <<cls, _handle_qty, file_lines, exc, _meta_data, owner_ident,
                   owner_desc, _columns, _columns_ok, _validation_errors,
                   reader, _owner, _active_parents, entities, warnings,
                   meta_i, run, first,
                   accepted>>

\* the tree under entity e, by value: what a traversal of the containers sees
RECURSIVE Tree(_, _)
Tree(ents, e) ==
    [ident |-> ents[e].ident, desc |-> ents[e].desc,
     refdes |-> ents[e].refdes, domain |-> ents[e].domain,
     children |-> [i \in 1..Len(ents[e].children) |->
                      Tree(ents, ents[e].children[i])]]

Outcome ==
    [pc |-> pc, exc |-> exc,
     tree |-> IF pc = "done" /\ result # NoEntity
              THEN <<Tree(entities, result)>> ELSE <<>>]

\* parse() is called a second time on the same file, on the same instance
\* or on a newly constructed one
Reparse(same) ==
    /\ pc \in {"done", "raised"}
    /\ run = 1
    /\ run' = 2
    /\ first' = Outcome
    /\ pc' = "start"
    /\ exc' = NoExc
    /\ result' = NoEntity
    /\ psl' = Unopened
    /\ reader' = "unset"
    /\ meta_i' = 1
    /\ IF same
       THEN UNCHANGED <<_meta_data, owner_ident, owner_desc, _columns,
                        _columns_ok, _validation_errors, _owner,
                        _active_parents, entities>>
       ELSE /\ _meta_data' = EmptyDict
            /\ owner_ident' = None
            /\ owner_desc' = None
            /\ _columns' = <<>>
            /\ _columns_ok' = "None"
            /\ _validation_errors' = <<>>
            /\ _owner' = NoEntity
            /\ _active_parents' = EmptyDict
            /\ entities' = <<>>
    /\ accepted' = <<>>
    /\ UNCHANGED <<cls, _handle_qty, file_lines, file_eof, warnings>>

-----------------------------------------------------------------------------
(* Specifications *)

CellP == <<"P">>

CellQ == <<"Q">>

(* Spec: one parse of a PslParserTMIR over files with hierarchies of single *)
(* entities, up to MaxRows rows deep.                                       *)

MetaValuesMain == {<<"M">>}

HeadersMain == {_expected_columns(cls)} \cup HeadersMissing

RowsMain == Rows(LevelCells, {CellP, CellQ}, {<<>>, CellP}, {CellQ},
                 TypeCells, {IntCell(2)})

Init == InitOf({"PslParserTMIR"}, {FALSE})

Next ==
    \/ GetPslFile
    \/ ReadMetaLine(MetaValuesMain)
    \/ _process_meta
    \/ _prep_reader(HeadersMain)
    \/ _create_owner
    \/ IterReader
    \/ _parse_line(RowsMain, MaxRows)
    \/ Return

Spec == Init /\ [][Next]_vars

(* SpecQty: one parse over files whose rows carry quantities, by a variant  *)
(* that expands quantities and by one that does not.                        *)

RowsQty == Rows(LevelCells, {CellP, CellQ}, {CellP}, {CellQ},
                TypeCells, QtyCells)

InitQty == InitOf({"PslParserTMIR"}, BOOLEAN)

NextQty ==
    \/ GetPslFile
    \/ ReadMetaLine(MetaValuesMain)
    \/ _process_meta
    \/ _prep_reader(HeadersMain)
    \/ _create_owner
    \/ IterReader
    \/ _parse_line(RowsQty, MaxRows - 1)
    \/ Return

SpecQty == InitQty /\ [][NextQty]_vars

(* SpecFront: one parse by either class over files with varied metadata and *)
(* header lines and few rows.                                               *)

MetaValuesFront == {<<"M">>, <<"7", " ">>}

HeadersFront == HeadersValid \cup HeadersMissing

RowsFront == Rows(LevelCells, {CellP}, {<<>>, CellP}, {<<>>, CellQ},
                  {_type_assembly(cls)}, {IntCell(1)})

InitFront == InitOf(Classes, {FALSE})

NextFront ==
    \/ GetPslFile
    \/ ReadMetaLine(MetaValuesFront)
    \/ _process_meta
    \/ _prep_reader(HeadersFront)
    \/ _create_owner
    \/ IterReader
    \/ _parse_line(RowsFront, MaxRows - 2)
    \/ Return

SpecFront == InitFront /\ [][NextFront]_vars

(* SpecTwice: parse() is called twice on the same file.                     *)

NextTwice ==
    \/ GetPslFile
    \/ ReadMetaLine(MetaValuesMain)
    \/ _process_meta
    \/ _prep_reader(HeadersMain)
    \/ _create_owner
    \/ IterReader
    \/ _parse_line(RowsMain, MaxRows - 1)
    \/ Return
    \/ Reparse(TRUE)
    \/ Reparse(FALSE)

SpecTwice == Init /\ [][NextTwice]_vars

(* SpecBlock: one parse by a variant that expands quantities, over files    *)
(* whose rows stand for one, MaxQty or twice MaxQty units.                  *)

QtyBlockCells == {IntCell(1), IntCell(MaxQty), IntCell(2 * MaxQty)}

RowsBlock == Rows(LevelCells, {CellP}, {CellP}, {CellQ}, TypeCells,
                  QtyBlockCells)

InitBlock == InitOf({"PslParserTMIR"}, {TRUE})

NextBlock ==
    \/ GetPslFile
    \/ ReadMetaLine(MetaValuesMain)
    \/ _process_meta
    \/ _prep_reader(HeadersMain)
    \/ _create_owner
    \/ IterReader
    \/ _parse_line(RowsBlock, MaxRows - 1)
    \/ Return

SpecBlock == InitBlock /\ [][NextBlock]_vars

(* SpecFail: one parse by a variant that expands quantities, over files    *)
(* whose rows can fail in each way: a level without parents, another         *)
(* parent's identity, no identity of their own, more parents than units.    *)

RowsFail == Rows(LevelCells, {CellP, CellQ}, {<<>>, CellP}, {<<>>},
                 {_type_part(cls)}, {IntCell(1), IntCell(MaxQty)})

NextFail ==
    \/ GetPslFile
    \/ ReadMetaLine(MetaValuesMain)
    \/ _process_meta
    \/ _prep_reader(HeadersMain)
    \/ _create_owner
    \/ IterReader
    \/ _parse_line(RowsFail, MaxRows - 1)
    \/ Return

SpecFail == InitBlock /\ [][NextFail]_vars

(* SpecDeep: one parse over files of up to MaxRows + 1 rows that all carry  *)
(* the same identity, so that every row names the identity of whatever      *)
(* entity the table holds one level up; only the levels vary.               *)

RowsDeep == Rows(LevelCells, {CellP}, {CellP}, {CellQ}, TypeCells,
                 {IntCell(1)})

NextDeep ==
    \/ GetPslFile
    \/ ReadMetaLine(MetaValuesMain)
    \/ _process_meta
    \/ _prep_reader(HeadersMain)
    \/ _create_owner
    \/ IterReader
    \/ _parse_line(RowsDeep, MaxRows + 1)
    \/ Return

SpecDeep == Init /\ [][NextDeep]_vars

-----------------------------------------------------------------------------
(* Properties *)

Terminal == pc \in {"done", "raised"}

IsChild(p, e) ==
    \E i \in 1..Len(entities[p].children) : entities[p].children[i] = e

\* the dictionary of the row read by the step from this state, when the
\* handle advances in state "rows"
ReadsRow == pc = "rows" /\ psl'.pos = psl.pos + 1

RowRead == DictZip(_columns, file_lines'[psl'.pos])

\* the level and the parent identity written in a row, read off its cells
LevelIn(line) == PyInt(line[_level_name(cls)])

ParentIdentIn(line) ==
    LET t == Strip(line["DrawingNo"] \o <<" ">> \o line["Alt"])
    IN  IF t = <<>> THEN None ELSE t

\* C1: when the header row lacks a required column, parse() ends without an
\* exception and returns no owner entity.
C1_SchemaAbortIsSoft ==
    (Terminal /\ _columns_ok = "False")
        => (pc = "done" /\ exc = NoExc /\ result = NoEntity)

\* C2: the entities of an accepted row at level 0 are children of the owner;
\* those of an accepted row at level L > 0 are children of entities generated
\* by the most recent preceding accepted row at level L - 1.
C2_ChildOfLevelParent ==
    \A k \in 1..Len(accepted) :
        LET a == accepted[k]
        IN  /\ a.level = 0 =>
                 \A i \in 1..Len(a.ents) : IsChild(_owner, a.ents[i])
            /\ a.level > 0 =>
                 \E j \in 1..(k - 1) :
                    /\ accepted[j].level = a.level - 1
                    /\ \A m \in (j + 1)..(k - 1) :
                          accepted[m].level # a.level - 1
                    /\ \A i \in 1..Len(a.ents) :
                          \E q \in 1..Len(accepted[j].ents) :
                             IsChild(accepted[j].ents[q], a.ents[i])

\* a row at level 1 was accepted after two rows at level 0
C2_Witness ==
    /\ Len(accepted) = 3
    /\ accepted[1].level = 0
    /\ accepted[2].level = 0
    /\ accepted[3].level = 1
    /\ IsChild(accepted[2].ents[1], accepted[3].ents[1])

\* C3: a row at level L > 0 whose parent identity differs from the identity
\* of the first active parent at level L - 1 fails with a fatal error, and
\* parse() returns no tree.
C3_ParentMismatchIsFatal ==
    [][ReadsRow =>
          LET line == RowRead
              L == LevelIn(line)
          IN  (/\ L > 0
               /\ (L - 1) \in DOMAIN _active_parents
               /\ _active_parents[L - 1] # <<>>
               /\ entities[_active_parents[L - 1][1]].ident # ParentIdentIn(line))
              => (/\ pc' = "raised"
                  /\ exc'.type = "AssertionError"
                  /\ result' = NoEntity)]_vars

\* a row under an accepted row was refused for its parent identity
C3_Witness ==
    /\ pc = "raised"
    /\ exc = Raise("AssertionError", <<"parent_ident">>)
    /\ Len(accepted) >= 1
    /\ result = NoEntity

\* C4: the file handle is released on every exit path of parse(): normal
\* completion, schema abort, metadata-format error, fatal error in a row.
C4_HandleReleased ==
    (Terminal /\ exc.type # "StopIteration") => psl.state = "closed"

\* the rows accepted so far, with the dictionary of each
AcceptedLine(k) == DictZip(_columns, file_lines[accepted[k].row])

\* the identity and domain tag written in a row, read off its cells
RowIdent(line) ==
    LET t == Strip(line["SDrawingNo"] \o <<" ">> \o line["SAlt"])
        d == Strip(line["Description"])
    IN  IF t # <<>> THEN <<t, "cadfiles">>
        ELSE IF d # <<>> THEN <<d, "materials">>
        ELSE None

Suffix == <<"a", "b", "c", "d", "e", "f">>

\* C5: a variant that handles quantity turns a row of quantity N > 1 into N
\* entities with the row's identity, description and domain tag and the
\* designators refdes+'a', refdes+'b', ..., pairwise distinct; a row of
\* quantity 1, or any row of a variant that does not handle quantity, gives
\* one entity with the row's refdes unchanged.
C5_QuantityExpansion ==
    \A k \in 1..Len(accepted) :
        LET a == accepted[k]
            line == AcceptedLine(k)
            N == PyInt(line[_qty_name(cls)])
            base == line[_refdes_name(cls)]
        IN  /\ (_handle_qty /\ N > 1) =>
                 /\ Len(a.ents) = N
                 /\ \A i \in 1..Len(a.ents) :
                       /\ entities[a.ents[i]].refdes = base \o <<Suffix[i]>>
                       /\ <<entities[a.ents[i]].ident,
                            entities[a.ents[i]].domain>> = RowIdent(line)
                       /\ entities[a.ents[i]].desc = line[_desc_name(cls)]
                 /\ \A i, j \in 1..Len(a.ents) :
                       i # j => entities[a.ents[i]].refdes
                                    # entities[a.ents[j]].refdes
            /\ (~_handle_qty \/ N = 1) =>
                 /\ Len(a.ents) = 1
                 /\ entities[a.ents[1]].refdes = base

\* a row of quantity 2 became the entities R1a and R1b
C5_Witness ==
    /\ _handle_qty
    /\ Len(accepted) >= 1
    /\ Len(accepted[1].ents) = 2
    /\ entities[accepted[1].ents[1]].refdes = <<"R", "1", "a">>
    /\ entities[accepted[1].ents[2]].refdes = <<"R", "1", "b">>

\* C6: a row one level below an entity without Structure that it names as
\* parent is accepted: the parent gains a Structure holding the child, one
\* warning is logged, and no EntityHasNoStructure leaves row processing.
C6_PromotionAccepted ==
    [][/\ exc'.type # "EntityHasNoStructure"
       /\ ReadsRow =>
            LET line == RowRead
                L == LevelIn(line)
            IN  (/\ L > 0
                 /\ (L - 1) \in DOMAIN _active_parents
                 /\ _active_parents[L - 1] # <<>>
                 /\ entities[_active_parents[L - 1][1]].ident = ParentIdentIn(line)
                 /\ ~entities[_active_parents[L - 1][1]].structure
                 /\ RowIdent(line) # None)
                => LET p == _active_parents[L - 1][1]
                   IN  /\ pc' = "rows"
                       /\ exc' = NoExc
                       /\ entities'[p].structure
                       /\ entities'[p].children = <<Len(entities) + 1>>
                       /\ Len(entities') = Len(entities) + 1
                       /\ warnings' = Append(warnings,
                                             <<"Adding structure",
                                               entities[p].ident>>)]_vars

\* a part row received a child
C6_Witness ==
    /\ Len(accepted) = 2
    /\ accepted[2].level = 1
    /\ AcceptedLine(1)[_type_name(cls)] = _type_part(cls)
    /\ entities[accepted[1].ents[1]].structure
    /\ entities[accepted[1].ents[1]].children = accepted[2].ents
    /\ Len(warnings) = 1

\* the value of the i-th metadata line of the file
MetaValue(i) == file_lines[i][2]

ExpectedOwnerIdent ==
    IF cls = "PslParserTMIR"
    THEN MetaValue(1) \o <<" ", "v">> \o MetaValue(2)
    ELSE MetaValue(1) \o <<"r">> \o MetaValue(2)

\* the file read so far: well-labelled metadata, a header with every
\* required column, and rows that were all accepted
ValidSoFar ==
    LET n == Len(_meta(cls))
    IN  /\ Len(file_lines) = n + 1 + Len(accepted)
        /\ \A i \in 1..n : file_lines[i][1] = _meta(cls)[i]
        /\ Range(_expected_columns(cls)) \subseteq Range(file_lines[n + 1])

\* C7: on a valid input (metadata labels in the declared order, all required
\* columns, every row accepted) parse() returns the owner, whose identity and
\* description are the owner templates applied to the metadata values,
\* whatever rows follow.
C7_OwnerFromMeta ==
    /\ (Terminal /\ ValidSoFar) => pc = "done"
    /\ pc = "done" =>
          /\ ValidSoFar
          /\ result # NoEntity
          /\ result = _owner
          /\ entities[result].ident = ExpectedOwnerIdent
          /\ entities[result].desc = MetaValue(3)

\* a PslParserCSV returned the owner "Mr7 " of a file with one row
C7_Witness ==
    /\ pc = "done"
    /\ cls = "PslParserCSV"
    /\ Len(accepted) = 1
    /\ entities[result].ident = <<"M", "r", "7", " ">>
    /\ entities[result].children = accepted[1].ents

MetaLabelsOk(n) == \A i \in 1..n : file_lines[i][1] = _meta(cls)[i]

\* C8: the metadata reader consumes one line per declared label, in order;
\* the first line with another label raises MetadataParseException with the
\* found and the expected label, and then no header is checked, no owner
\* created and no row processed.
C8_MetaReader ==
    LET n == Len(_meta(cls))
    IN  /\ pc \in {"process_meta", "prep_reader"} =>
              /\ psl.pos = n
              /\ \A i \in 1..n : _meta_data[_meta(cls)[i]] = MetaValue(i)
        /\ pc \notin {"start", "read_meta", "raised"} => MetaLabelsOk(n)
        /\ \A k \in 1..Min(n, psl.pos) :
              file_lines[k][1] # _meta(cls)[k] =>
                  exc.type = "MetadataParseException"
        /\ exc.type = "MetadataParseException" =>
              /\ pc = "raised"
              /\ psl.pos <= n
              /\ MetaLabelsOk(psl.pos - 1)
              /\ exc.args = <<file_lines[psl.pos][1], _meta(cls)[psl.pos]>>
              /\ exc.args[1] # exc.args[2]
              /\ _columns = <<>>
              /\ _columns_ok = "None"
              /\ _owner = NoEntity
              /\ entities = <<>>
              /\ accepted = <<>>

\* the second label of the file was wrong
C8_Witness ==
    /\ exc.type = "MetadataParseException"
    /\ psl.pos = 2
    /\ exc.args[2] = _meta(cls)[2]

\* C9: a row at level L is accepted only if the active-parent table holds an
\* entry for level L - 1 (the root slot for L = 0, otherwise the entry of an
\* earlier row at level L - 1); if it holds none, the row fails with KeyError.
C9_ParentLevelPresent ==
    [][ReadsRow =>
          LET L == LevelIn(RowRead)
          IN  /\ (L - 1) \notin DOMAIN _active_parents =>
                    (pc' = "raised" /\ exc'.type = "KeyError")
              /\ pc' = "rows" =>
                    /\ (L - 1) \in DOMAIN _active_parents
                    /\ L = 0 => _active_parents[-1] = <<_owner>>
                    /\ L # 0 =>
                          \E j \in 1..Len(accepted) :
                             /\ accepted[j].level = L - 1
                             /\ accepted[j].ents = _active_parents[L - 1]]_vars

\* a row was refused for its missing parent level, after an accepted row
C9_Witness ==
    /\ pc = "raised"
    /\ exc.type = "KeyError"
    /\ Len(accepted) >= 1

\* C10: a second parse of a file whose first parse returned a tree returns an
\* identical tree (shape, child order, identity, description, designator and
\* domain tag of every node), on a new instance and on the same instance.
C10_Idempotent ==
    (run = 2 /\ Terminal /\ first.pc = "done")
        => (pc = "done" /\ Outcome.tree = first.tree)

\* the same instance parsed a two-level file twice
C10_Witness ==
    /\ run = 2
    /\ pc = "done"
    /\ Len(accepted) = 2
    /\ accepted[2].level = 1
    /\ Len(entities) = 6
    /\ Outcome.tree = first.tree

\* the step of parse() that reads the header line
ReadsHeader == pc = "prep_reader" /\ psl'.pos = psl.pos + 1

\* C11: the header check sets the columns-usable flag to true exactly when
\* every required column name is in the header row, in whatever order; with
\* a column missing it sets the flag to false and adds exactly one
\* required-column-missing error, naming the missing columns, to the sink;
\* with none missing it adds no error.
C11_HeaderCheck ==
    [][ReadsHeader =>
          LET header == file_lines'[psl'.pos]
              required == Range(_expected_columns(cls))
              missing == {c \in required :
                             \A i \in 1..Len(header) : header[i] # c}
          IN  /\ _columns' = header
              /\ (_columns_ok' = "True") <=> (missing = {})
              /\ missing = {} =>
                    _validation_errors' = _validation_errors
              /\ missing # {} =>
                    /\ _columns_ok' = "False"
                    /\ Len(_validation_errors') = Len(_validation_errors) + 1
                    /\ SubSeq(_validation_errors', 1, Len(_validation_errors))
                           = _validation_errors
                    /\ _validation_errors'[Len(_validation_errors')]
                           = [type |-> "RequiredColumnMissingError",
                              columns |-> missing]]_vars

\* a PslParserCSV read a header without the column "level"
C11_Witness ==
    /\ cls = "PslParserCSV"
    /\ _columns_ok = "False"
    /\ Len(_validation_errors) = 1
    /\ _validation_errors[1].columns = {"level"}
    /\ Len(_columns) = Len(_expected_columns(cls)) - 1

\* the entities created by the step from this state
NewEntities == (Len(entities) + 1)..Len(entities')

\* the number of units a row stands for
UnitsIn(line) ==
    LET N == PyInt(line[_qty_name(cls)])
    IN  IF ~_handle_qty THEN 1 ELSE IF N > 0 THEN N ELSE 0

\* the row read names a populated parent level and the identity of its
\* first active parent, and has an identity of its own
RowFitsParents(line) ==
    LET L == LevelIn(line)
    IN  /\ (L - 1) \in DOMAIN _active_parents
        /\ _active_parents[L - 1] # <<>>
        /\ L > 0 => entities[_active_parents[L - 1][1]].ident
                        = ParentIdentIn(line)
        /\ RowIdent(line) # None

\* C12: whenever the entities of a row are inserted, their number is an
\* integer multiple of the number of active parents at the parent level; a
\* row whose number is not fails with the assertion on per_parent before any
\* of its entities is inserted into any parent.
C12_EvenDivision ==
    [][ReadsRow =>
          LET line == RowRead
              L == LevelIn(line)
          IN  /\ pc' = "rows" =>
                    LET P == Len(_active_parents[L - 1])
                        E == Cardinality(NewEntities)
                    IN  P > 0 /\ \E m \in 0..E : m * P = E
              /\ (/\ RowFitsParents(line)
                  /\ \A m \in 0..UnitsIn(line) :
                        m * Len(_active_parents[L - 1]) # UnitsIn(line))
                 => /\ pc' = "raised"
                    /\ exc' = Raise("AssertionError", <<"per_parent">>)
                    /\ \A p \in 1..Len(entities) :
                          entities'[p] = entities[p]
                    /\ \A p \in 1..Len(entities'), e \in NewEntities :
                          \A i \in 1..Len(entities'[p].children) :
                             entities'[p].children[i] # e]_vars

\* a row of one unit was refused under a parent level of two entities
C12_Witness ==
    /\ pc = "raised"
    /\ exc = Raise("AssertionError", <<"per_parent">>)
    /\ Len(accepted) = 1
    /\ Len(accepted[1].ents) = 2
    /\ Len(entities) = 4
    /\ entities[accepted[1].ents[1]].children = <<>>
    /\ entities[accepted[1].ents[2]].children = <<>>

\* C13: when E generated entities are inserted into P active parents, with
\* per_parent = E / P, the parent at position p (0-based, in table order)
\* receives the entities at positions p * per_parent .. (p + 1) * per_parent
\* - 1, in that order, after the children it had; every generated entity is
\* in exactly one parent and every parent receives exactly per_parent.
C13_ContiguousBlocks ==
    [][(ReadsRow /\ pc' = "rows") =>
          LET parents == _active_parents[LevelIn(RowRead) - 1]
              P == Len(parents)
              E == Cardinality(NewEntities)
              per_parent == E \div P
          IN  /\ per_parent * P = E
              /\ \A p \in 0..(P - 1) :
                    entities'[parents[p + 1]].children =
                        entities[parents[p + 1]].children
                            \o [i \in 1..per_parent |->
                                   Len(entities) + p * per_parent + i]
              /\ \A e \in NewEntities :
                    Cardinality({q \in 1..Len(entities') :
                                    \E i \in 1..Len(entities'[q].children) :
                                       entities'[q].children[i] = e}) = 1]_vars

\* four entities went to two parents, two each
C13_Witness ==
    /\ Len(accepted) = 2
    /\ Len(accepted[1].ents) = 2
    /\ Len(accepted[2].ents) = 4
    /\ entities[accepted[1].ents[1]].children
           = <<accepted[2].ents[1], accepted[2].ents[2]>>
    /\ entities[accepted[1].ents[2]].children
           = <<accepted[2].ents[3], accepted[2].ents[4]>>

\* C14: after a row at level L is accepted, the active-parent entry for level
\* L is exactly the list of the entities generated from that row, in
\* generation order, whatever occupied it before, and the entry of every
\* other level, the root slot included, is as it was.
C14_EntryReplaced ==
    [][(ReadsRow /\ pc' = "rows") =>
          LET L == LevelIn(RowRead)
          IN  /\ DOMAIN _active_parents' = DOMAIN _active_parents \cup {L}
              /\ _active_parents'[L] =
                    [i \in 1..Cardinality(NewEntities) |-> Len(entities) + i]
              /\ \A k \in DOMAIN _active_parents \ {L} :
                    _active_parents'[k] = _active_parents[k]
              /\ _active_parents'[-1] = <<_owner>>]_vars

\* a second row at level 0 took the place of the two entities of the first
C14_Witness ==
    /\ Len(accepted) = 2
    /\ accepted[1].level = 0
    /\ accepted[2].level = 0
    /\ Len(accepted[1].ents) = 2
    /\ Len(accepted[2].ents) = 2
    /\ _active_parents[0] = accepted[2].ents
    /\ _active_parents[-1] = <<_owner>>

\* C15: a parse passes through its phases in order: the metadata block is
\* consumed before the header is checked; the owner is created and the
\* active-parent table seeded only when the schema is valid, and with an
\* invalid schema no owner is created, no table entry written and no row
\* processed; rows are processed only after seeding, and the owner is
\* returned only after the last row.
C15_PhaseOrder ==
    LET n == Len(_meta(cls))
    IN  /\ _columns_ok # "None" =>
              /\ psl.pos >= n + 1
              /\ \A i \in 1..n : _meta(cls)[i] \in DOMAIN _meta_data
        /\ (_owner # NoEntity \/ _active_parents # EmptyDict) =>
              _columns_ok = "True"
        /\ _columns_ok = "False" =>
              /\ _owner = NoEntity
              /\ _active_parents = EmptyDict
              /\ entities = <<>>
              /\ accepted = <<>>
        /\ accepted # <<>> =>
              /\ _owner # NoEntity
              /\ _active_parents[-1] = <<_owner>>
        /\ result # NoEntity =>
              /\ result = _owner
              /\ file_eof
              /\ psl.pos = Len(file_lines)

\* the type written in the row that entity e was generated from, for the
\* entities of accepted rows
FromAssemblyRow(e) ==
    \E k \in 1..Len(accepted) :
        /\ \E i \in 1..Len(accepted[k].ents) : accepted[k].ents[i] = e
        /\ AcceptedLine(k)[_type_name(cls)] = _type_assembly(cls)

FromAcceptedRow(e) ==
    \E k \in 1..Len(accepted) :
        \E i \in 1..Len(accepted[k].ents) : accepted[k].ents[i] = e

\* which entities have a Structure
StructureRule ==
    /\ \A e \in 1..Len(entities) :
          ~entities[e].structure => entities[e].children = <<>>
    /\ \A e \in 1..Len(entities) :
          (e = _owner \/ FromAcceptedRow(e)) =>
              (entities[e].structure <=>
                  \/ e = _owner
                  \/ FromAssemblyRow(e)
                  \/ entities[e].children # <<>>)

\* a step keeps every Structure with the children in it, and gives a
\* Structure only to an entity that had none and receives a child
StructureKept ==
    \A e \in 1..Len(entities) :
        /\ Len(entities') >= Len(entities)
        /\ entities[e].structure =>
              /\ entities'[e].structure
              /\ Len(entities'[e].children) >= Len(entities[e].children)
              /\ SubSeq(entities'[e].children, 1, Len(entities[e].children))
                     = entities[e].children
        /\ (~entities[e].structure /\ entities'[e].structure) =>
              entities'[e].children # <<>>

\* C16: an entity without a Structure never has children; a Structure is
\* present on an entity exactly when it is the owner, or its row's type field
\* equals the assembly marker, or it has received a child; promotion happens
\* only on an entity without a Structure, so a Structure and the children in
\* it are never replaced or lost.
C16_Structures == []StructureRule /\ [][StructureKept]_vars

\* of two part rows at level 0, the first was promoted by a child and the
\* second has no Structure
C16_Witness ==
    /\ Len(accepted) = 3
    /\ accepted[1].level = 0
    /\ accepted[2].level = 1
    /\ accepted[3].level = 0
    /\ AcceptedLine(1)[_type_name(cls)] = _type_part(cls)
    /\ AcceptedLine(3)[_type_name(cls)] = _type_part(cls)
    /\ entities[accepted[1].ents[1]].structure
    /\ entities[accepted[1].ents[1]].children = accepted[2].ents
    /\ ~entities[accepted[3].ents[1]].structure

\* the row read passes the checks made before its identity is extracted
RowReachesIdent(line) ==
    LET L == LevelIn(line)
    IN  /\ (L - 1) \in DOMAIN _active_parents
        /\ _active_parents[L - 1] # <<>>
        /\ L > 0 => entities[_active_parents[L - 1][1]].ident
                        = ParentIdentIn(line)

\* the one entity of the row read has this identity and domain tag
NewEntityIs(ident, domain) ==
    /\ pc' = "rows"
    /\ Len(entities') = Len(entities) + 1
    /\ entities'[Len(entities')].ident = ident
    /\ entities'[Len(entities')].domain = domain

C18_AllOrNothing ==
    [][(ReadsRow /\ pc' = "raised") =>
          /\ _active_parents' = _active_parents
          /\ _owner' = _owner
          /\ \A e \in 1..Len(entities) : entities'[e] = entities[e]
          /\ Tree(entities', _owner') = Tree(entities, _owner)
          /\ accepted' = accepted]_vars

\* the ways a row failed after an accepted row
C18_Failed(type, args) ==
    /\ pc = "raised"
    /\ exc = Raise(type, args)
    /\ Len(accepted) = 1
    /\ Len(accepted[1].ents) = 2
    /\ Len(entities[_owner].children) = 2

\* a row failed on the division of one entity over two parents
C18_Witness == C18_Failed("AssertionError", <<"per_parent">>)

\* the entities in the containers of the entities of S
ChildrenOf(S) ==
    UNION {Range(entities[p].children) : p \in S}

\* the entities a traversal of the containers from the entities of S visits
RECURSIVE Reach(_)
Reach(S) ==
    IF ChildrenOf(S) \subseteq S THEN S ELSE Reach(S \cup ChildrenOf(S))

\* the places (container, position) that hold entity e
PlacesOf(e) ==
    {<<p, i>> \in (1..Len(entities)) \X (1..Len(entities)) :
        i <= Len(entities[p].children) /\ entities[p].children[i] = e}

TreeRule ==
    _owner # NoEntity =>
        /\ PlacesOf(_owner) = {}
        /\ \A e \in 1..Len(entities) :
              FromAcceptedRow(e) =>
                  /\ Cardinality(PlacesOf(e)) = 1
                  /\ e \in Reach({_owner})
                  /\ e # _owner

ChildrenStay ==
    \A p \in 1..Len(entities) :
        \A i \in 1..Len(entities[p].children) :
            /\ p <= Len(entities')
            /\ i <= Len(entities'[p].children)
            /\ entities'[p].children[i] = entities[p].children[i]

\* C19: after any sequence of accepted rows the entities form a tree rooted
\* at the owner: every entity of an accepted row has exactly one parent and
\* is reached from the owner by traversing the containers, the owner has no
\* parent, and an entity inserted under a parent stays a child of that
\* parent for the rest of the parse.
C19_TreeAtOwner == []TreeRule /\ [][ChildrenStay]_vars

\* two entities at level 1 sit under the two entities of a row at level 0
C19_Witness ==
    /\ Len(accepted) = 2
    /\ accepted[1].level = 0
    /\ accepted[2].level = 1
    /\ Len(accepted[1].ents) = 2
    /\ Len(accepted[2].ents) = 2
    /\ Reach({_owner}) = 1..5
    /\ PlacesOf(accepted[2].ents[2]) = {<<accepted[1].ents[2], 1>>}

\* the table holds one root-to-current path down to level L
TablePath(L) ==
    /\ _active_parents[-1] = <<_owner>>
    /\ \A k \in 0..L :
          /\ k \in DOMAIN _active_parents
          /\ \A i \in 1..Len(_active_parents[k]) :
                \E j \in 1..Len(_active_parents[k - 1]) :
                   IsChild(_active_parents[k - 1][j], _active_parents[k][i])

\* the accepted rows start at level 0 and none is more than one level below
\* the row before it
LevelsInOrder ==
    \A k \in 1..Len(accepted) :
        accepted[k].level <= (IF k = 1 THEN 0 ELSE accepted[k - 1].level + 1)

====
